---- MODULE Spec2Model ----
(***************************************************************************)
(* yamcts: a generic Monte Carlo Tree Search engine (src/src/lib.rs) with  *)
(* root parallelisation.  The model covers the arena tree (Node, Tree),    *)
(* the worker loop of run_with_end_condition, the two end conditions of    *)
(* MCTS, and BestResultHandle::is_finished / join.  The GameState played   *)
(* is the subtraction game of src/examples/nim.rs, generalised by the set  *)
(* of take sizes so that an implementation breaking the "a non-terminal    *)
(* state has a move" contract is among the inputs.                         *)
(*                                                                         *)
(* Rust indices are kept 0-based: Vec<Node> is a function on 0..len-1.     *)
(* Option<T> is a sequence of length 0 (None) or 1 (Some).                 *)
(***************************************************************************)
EXTENDS Integers, Sequences, FiniteSets, TLC

\* ------------------------------------------------------------------ bounds
\* nim.rs plays to 21; the model plays the same game to a smaller target.
TARGET_NUMBER == 3
\* largest worker count (MCTS::num_threads) drawn in Init
MaxThreads == 2
\* most loop iterations the workers of one search execute between them: the
\* budgets drawn in Init fit it, and under run_with_duration a worker starts
\* no iteration beyond its share of it
MaxWork == 4

\* ------------------------------------------------------------------ Option
None == <<>>
Some(x) == <<x>>
IsSome(o) == o # None
Unwrap(o) == o[1]

\* The element of a singleton.  A recursive call is written
\* The({F(v) : v \in {e}}) so that its argument e is evaluated once.
The(S) == CHOOSE x \in S : TRUE

\* ------------------------------------------------------------------ state
VARIABLES
    takes,            \* the GameState implementation: the take sizes it allows
    mode,             \* "iterations" (run_with_iterations) or "duration"
    num_iterations,   \* run_with_iterations' budget
    nthreads,         \* MCTS.num_threads
    timeUp,           \* run_with_duration: Utc::now() >= end_time
    initial_move_set, \* BestResultHandle.initial_move_set
    nodes,            \* per worker: tree.nodes
    pc,               \* per worker: position in the thread's closure
    iterations,       \* per worker: the closure's `iterations`
    selection_idx,    \* per worker: Option of `selection_idx`
    child_selection,  \* per worker: Option of `child_selection`
    result,           \* per worker: Option of the outcome to backpropagate
    ret,              \* per worker: Option of the thread's return value
    bpCalls,          \* per worker (history): calls of Tree::backpropagate
    executed,         \* per worker (history): completed loop iterations
    draws,            \* per worker (history): what the thread's rng has decided
    callerPc,         \* the handle's owner: "running", "polling", "joining", "returned", "panicked"
    pollIdx,          \* is_finished: the thread `any` looks at next
    polled,           \* is_finished: "none", or the value last returned
    joinIdx,          \* join: the thread joined next
    acc,              \* join: Option of reduce's accumulator
    best              \* join: Option of the BestResult returned

vars == <<takes, mode, num_iterations, nthreads, timeUp, initial_move_set,
          nodes, pc, iterations, selection_idx, child_selection, result, ret,
          bpCalls, executed, draws, callerPc, pollIdx, polled, joinIdx, acc,
          best>>

configVars == <<takes, mode, num_iterations, nthreads, initial_move_set>>
workerVars == <<nodes, pc, iterations, selection_idx, child_selection, result,
                ret, bpCalls, executed, draws>>
callerVars == <<callerPc, pollIdx, polled, joinIdx, acc, best>>

Workers == 1..nthreads

\* ------------------------------------------------------------------ GameState (nim.rs)
NimState(start_player, current_num) ==
    [start_player |-> start_player, current_num |-> current_num]

NimMove(start_player, nums) == [start_player |-> start_player, nums |-> nums]

Min(a, b) == IF a < b THEN a ELSE b

\* nim.rs offers every n in 1..=min(TARGET_NUMBER - current_num, 3); the
\* implementation drawn in Init offers those of them that are in `takes`.
all_moves(s) ==
    LET max == Min(TARGET_NUMBER - s.current_num, 3)
        sizes == SelectSeq([n \in 1..max |-> n], LAMBDA n : n \in takes)
    IN  [i \in 1..Len(sizes) |-> NimMove(~s.start_player, sizes[i])]

apply_move(s, action) ==
    NimState(action.start_player, s.current_num + action.nums)

is_terminal_state(s) ==
    IF s.current_num = TARGET_NUMBER
    THEN (IF s.start_player THEN Some("NotStartPlayer") ELSE Some("StartPlayer"))
    ELSE IF s.current_num > TARGET_NUMBER THEN Some("Invalid")
    ELSE None

terminal_is_win(s, condition) ==
    CASE condition = "StartPlayer" -> s.start_player
      [] condition = "NotStartPlayer" -> ~s.start_player
      [] OTHER -> FALSE

\* GameState::random_move: the Options the default implementation can return,
\* one per value rng.gen_range(0..children.len()) can take.
random_move(s) ==
    LET children == all_moves(s)
    IN  IF children = <<>> THEN {None}
        ELSE {Some(children[i]) : i \in 1..Len(children)}

\* ------------------------------------------------------------------ Node, Tree
NodeNew(t, parent) ==
    [n |-> 1, w |-> 0, state |-> t, children |-> <<>>, parent |-> parent]

NodesLen(ns) == Cardinality(DOMAIN ns)

\* Tree::new: an empty arena
TreeNew == [i \in {} |-> 0]

\* Tree::add_node_with_parent: the arena after the push; the index returned
\* is NodesLen of the arena before.
\* pushes the node without recording it in its parent's children list
add_node_with_parent_unlinked(ns, nd) ==
    LET len == NodesLen(ns)
    IN  [i \in 0..len |-> IF i < len THEN ns[i] ELSE nd]

add_node_with_parent(ns, nd) ==
    LET len == NodesLen(ns)
        pushed == [i \in 0..len |-> IF i < len THEN ns[i] ELSE nd]
    IN  IF IsSome(nd.parent)
        THEN [pushed EXCEPT ![Unwrap(nd.parent)].children = Append(@, len)]
        ELSE pushed

\* ------------------------------------------------------------------ Tree::uct
\* f64 scores are kept in units of 1/Scale.
Scale == 10000

\* default_exploration_constant is sqrt(2): its square
ExplorationFactorSq == 2

\* (parent.n as f64).ln(), in units of 1/Scale, for the visit counts the
\* bounds reach
LnScaled(p) ==
    <<0, 6931, 10986, 13863, 16094, 17918, 19459, 20794, 21972, 23026,
      23979, 24849, 25649, 26391, 27081, 27726>>[p]

RECURSIVE IsqrtBetween(_, _, _)
IsqrtBetween(x, lo, hi) ==
    IF lo = hi THEN lo
    ELSE LET mid == (lo + hi + 1) \div 2
         IN  The({ IF m * m <= x THEN IsqrtBetween(x, m, hi)
                   ELSE IsqrtBetween(x, lo, m - 1) : m \in {mid} })

\* f64::sqrt of x / Scale^2, in units of 1/Scale
Isqrt(x) == The({ IsqrtBetween(v, 0, 4 * Scale) : v \in {x} })

uct(ns, node_idx, parent_idx) ==
    LET node == ns[node_idx]
        parent == ns[parent_idx]
        win_prob == (node.w * Scale) \div node.n
        exploration ==
            Isqrt((ExplorationFactorSq * Scale * LnScaled(parent.n)) \div node.n)
    IN  win_prob + exploration

\* f64::total_cmp on two children of one parent: "Less", "Equal", "Greater".
\* Children with the same visits and wins have the same score bit for bit.
total_cmp(ns, c1, c2, parent_idx) ==
    IF ns[c1].n = ns[c2].n /\ ns[c1].w = ns[c2].w THEN "Equal"
    ELSE IF uct(ns, c1, parent_idx) > uct(ns, c2, parent_idx) THEN "Greater"
    ELSE "Less"

\* The fixed-point scores order two children as the f64 scores do when they
\* differ by more than the rounding of uct (3 units).
UctMargin == 3

UctResolvedAt(ns, parent_idx) ==
    \A i, j \in 1..Len(ns[parent_idx].children) :
        LET c1 == ns[parent_idx].children[i]
            c2 == ns[parent_idx].children[j]
            d == uct(ns, c1, parent_idx) - uct(ns, c2, parent_idx)
        IN  (ns[c1].n # ns[c2].n \/ ns[c1].w # ns[c2].w)
                => (d > UctMargin \/ d < -UctMargin)

\* Iterator::max_by: folds with `if compare(best, next) is Greater then best
\* else next`, so of several maximal elements the last one is returned.
RECURSIVE MaxByFrom(_, _, _, _)
MaxByFrom(ns, parent_idx, i, bestc) ==
    LET cs == ns[parent_idx].children
    IN  IF i > Len(cs) THEN bestc
        ELSE The({ MaxByFrom(ns, parent_idx, i + 1, b) :
                   b \in {IF total_cmp(ns, bestc, cs[i], parent_idx) = "Greater"
                          THEN bestc ELSE cs[i]} })

\* max_by with the opposite tie-break: of several maximal children the first
\* one is kept.
max_by_uct_first(ns, parent_idx) ==
    LET cs == ns[parent_idx].children
        maximal(i) == \A j \in 1..Len(cs) :
                          total_cmp(ns, cs[j], cs[i], parent_idx) # "Greater"
    IN  cs[CHOOSE i \in 1..Len(cs) :
               maximal(i) /\ \A j \in 1..(i - 1) : ~maximal(j)]

max_by_uct(ns, parent_idx) ==
    MaxByFrom(ns, parent_idx, 2, ns[parent_idx].children[1])

\* ------------------------------------------------------------------ Tree::select
\* the walk stops after its first descent
SelectFromOneLevel(ns, nidx) ==
    LET p == ns[nidx]
    IN  IF IsSome(is_terminal_state(p.state)) THEN nidx
        ELSE IF p.children = <<>> THEN nidx
        ELSE max_by_uct(ns, nidx)

RECURSIVE SelectFrom(_, _)
SelectFrom(ns, nidx) ==
    LET p == ns[nidx]
    IN  IF IsSome(is_terminal_state(p.state)) THEN nidx
        ELSE IF p.children = <<>> THEN nidx
        ELSE The({ SelectFrom(ns, c) : c \in {max_by_uct(ns, nidx)} })

select(ns) == SelectFrom(ns, 0)

\* ------------------------------------------------------------------ Tree::expand
RECURSIVE ExpandFrom(_, _, _, _)
ExpandFrom(ns, idx, moves, i) ==
    IF i > Len(moves) THEN ns
    ELSE The({ ExpandFrom(pushed, idx, moves, i + 1) :
               pushed \in {add_node_with_parent(
                   ns, NodeNew(apply_move(ns[idx].state, moves[i]), Some(idx)))} })

\* pushes the children in the reverse of the order of all_moves()
RECURSIVE ExpandReversedFrom(_, _, _, _)
ExpandReversedFrom(ns, idx, moves, i) ==
    IF i < 1 THEN ns
    ELSE The({ ExpandReversedFrom(pushed, idx, moves, i - 1) :
               pushed \in {add_node_with_parent(
                   ns, NodeNew(apply_move(ns[idx].state, moves[i]), Some(idx)))} })

expand_reversed(ns, idx) ==
    The({ ExpandReversedFrom(ns, idx, moves, Len(moves)) :
          moves \in {all_moves(ns[idx].state)} })

\* the arena after expand(idx)
expand(ns, idx) ==
    The({ ExpandFrom(ns, idx, moves, 1) : moves \in {all_moves(ns[idx].state)} })

\* the Vec<usize> expand(idx) returns
expand_returns(ns, idx) ==
    [i \in 1..Len(all_moves(ns[idx].state)) |-> NodesLen(ns) + i - 1]

\* ------------------------------------------------------------------ Tree::random_playout
\* The values a playout from `state` can return, one per sequence of draws;
\* "panic" stands for random_move(..).unwrap() on None.
RECURSIVE PlayoutFrom(_)
PlayoutFrom(state) ==
    LET reward == is_terminal_state(state)
    IN  IF IsSome(reward) THEN {Unwrap(reward)}
        ELSE UNION { IF IsSome(m)
                     THEN UNION { PlayoutFrom(next) :
                                  next \in {apply_move(state, Unwrap(m))} }
                     ELSE {"panic"} : m \in random_move(state) }

random_playout(ns, n) == PlayoutFrom(ns[n].state)

\* ------------------------------------------------------------------ Tree::backpropagate
\* counts the win and forgets the visit
BackpropagateNodeWinOnly(node, res) ==
    [node EXCEPT !.w = IF terminal_is_win(node.state, res) THEN @ + 1 ELSE @]

BackpropagateNode(node, res) ==
    [node EXCEPT !.n = @ + 1,
                 !.w = IF terminal_is_win(node.state, res) THEN @ + 1 ELSE @]

\* stops at the root instead of after it
RECURSIVE backpropagate_below_root(_, _, _)
backpropagate_below_root(ns, idx, res) ==
    IF IsSome(ns[idx].parent)
    THEN The({ backpropagate_below_root(u, Unwrap(ns[idx].parent), res) :
               u \in {[ns EXCEPT ![idx].n = @ + 1,
                                 ![idx].w = IF terminal_is_win(ns[idx].state, res)
                                            THEN @ + 1 ELSE @]} })
    ELSE ns

\* judges the win once, from the state of the node the walk starts at
RECURSIVE BackpropagateJudgedOnce(_, _, _, _)
BackpropagateJudgedOnce(ns, idx, res, win) ==
    LET updated == [ns EXCEPT ![idx].n = @ + 1,
                              ![idx].w = IF win THEN @ + 1 ELSE @]
    IN  IF IsSome(ns[idx].parent)
        THEN The({ BackpropagateJudgedOnce(u, Unwrap(ns[idx].parent), res, win) :
                   u \in {updated} })
        ELSE updated

backpropagate_judged_once(ns, idx, res) ==
    BackpropagateJudgedOnce(ns, idx, res, terminal_is_win(ns[idx].state, res))

\* starts at the parent of idx: the node itself is not counted
RECURSIVE BackpropagateUpFrom(_, _, _)
BackpropagateUpFrom(ns, idx, res) ==
    LET updated == [ns EXCEPT ![idx] = BackpropagateNode(@, res)]
    IN  IF IsSome(ns[idx].parent)
        THEN The({ BackpropagateUpFrom(u, Unwrap(ns[idx].parent), res) :
                   u \in {updated} })
        ELSE updated

backpropagate_from_parent(ns, idx, res) ==
    IF IsSome(ns[idx].parent)
    THEN BackpropagateUpFrom(ns, Unwrap(ns[idx].parent), res)
    ELSE ns

RECURSIVE backpropagate(_, _, _)
backpropagate(ns, idx, res) ==
    LET updated == [ns EXCEPT ![idx] = BackpropagateNode(@, res)]
    IN  IF IsSome(ns[idx].parent)
        THEN The({ backpropagate(u, Unwrap(ns[idx].parent), res) : u \in {updated} })
        ELSE updated

\* ------------------------------------------------------------------ end conditions
\* run_with_iterations: move |nthreads, iters| iters >= num_iterations / nthreads
\* run_with_duration:   move |_, _| Utc::now() >= end_time
\* one budget counted over the threads together, as with a shared counter
RECURSIVE IterationsUpTo(_)
IterationsUpTo(k) == IF k = 0 THEN 0 ELSE iterations[k] + IterationsUpTo(k - 1)

end_condition_shared(nt, iters) ==
    IF mode = "iterations" THEN IterationsUpTo(nt) >= num_iterations
    ELSE timeUp

end_condition(nt, iters) ==
    IF mode = "iterations" THEN iters >= num_iterations \div nt
    ELSE timeUp

\* ------------------------------------------------------------------ the worker thread
\* the closure's return value: (iterations, visits of the root's children)
ThreadReturn(w) ==
    <<iterations[w],
      [i \in 1..Len(nodes[w][0].children) |-> nodes[w][nodes[w][0].children[i]].n]>>

\* the loop never takes the terminal branch
selection_terminal_never(ns, idx) == None

\* let terminal = tree[selection_idx].state.is_terminal_state();
selection_terminal(ns, idx) == is_terminal_state(ns[idx].state)

\* a `while !end_condition(..)` loop: the test comes before the iteration
SelectTestsFirst(w) ==
    /\ pc[w] = "select"
    /\ mode = "duration" => executed[w] < MaxWork \div nthreads
    /\ IF end_condition(nthreads, iterations[w])
       THEN /\ pc' = [pc EXCEPT ![w] = "finished"]
            /\ ret' = [ret EXCEPT ![w] = Some(ThreadReturn(w))]
            /\ UNCHANGED <<selection_idx, result>>
       ELSE LET idx == select(nodes[w])
                terminal == selection_terminal(nodes[w], idx)
            IN  /\ selection_idx' = [selection_idx EXCEPT ![w] = Some(idx)]
                /\ result' = [result EXCEPT ![w] = terminal]
                /\ pc' = [pc EXCEPT ![w] = IF IsSome(terminal) THEN "backpropagate"
                                           ELSE "expand"]
                /\ UNCHANGED ret
    /\ UNCHANGED <<nodes, iterations, child_selection, bpCalls, executed, draws>>
    /\ UNCHANGED <<configVars, timeUp, callerVars>>

\* let selection_idx = tree.select(); let terminal = ...is_terminal_state();
Select(w) ==
    /\ pc[w] = "select"
    /\ mode = "duration" => executed[w] < MaxWork \div nthreads
    /\ LET idx == select(nodes[w])
           terminal == selection_terminal(nodes[w], idx)
       IN  /\ selection_idx' = [selection_idx EXCEPT ![w] = Some(idx)]
           /\ result' = [result EXCEPT ![w] = terminal]
           /\ pc' = [pc EXCEPT ![w] = IF IsSome(terminal) THEN "backpropagate"
                                      ELSE "expand"]
    /\ UNCHANGED <<nodes, iterations, child_selection, ret, bpCalls, executed,
                   draws>>
    /\ UNCHANGED <<configVars, timeUp, callerVars>>

\* let new_children = tree.expand(selection_idx);
\* let child_selection = new_children[rng.gen_range(0..new_children.len())];
\* With no children every index is out of bounds: the thread panics.
Expand(w) ==
    /\ pc[w] = "expand"
    /\ LET idx == Unwrap(selection_idx[w])
           new_children == expand_returns(nodes[w], idx)
       IN  /\ nodes' = [nodes EXCEPT ![w] = expand(@, idx)]
           /\ IF new_children = <<>>
              THEN /\ pc' = [pc EXCEPT ![w] = "panicked"]
                   /\ UNCHANGED <<child_selection, draws>>
              ELSE \E random_child_idx \in 0..(Len(new_children) - 1) :
                   /\ child_selection' = [child_selection EXCEPT
                          ![w] = Some(new_children[random_child_idx + 1])]
                   /\ draws' = [draws EXCEPT ![w] = Append(@, random_child_idx)]
                   /\ pc' = [pc EXCEPT ![w] = "playout"]
    /\ UNCHANGED <<iterations, selection_idx, result, ret, bpCalls, executed>>
    /\ UNCHANGED <<configVars, timeUp, callerVars>>

\* let result = tree.random_playout(child_selection, &mut rng);
Playout(w) ==
    /\ pc[w] = "playout"
    /\ \E r \in random_playout(nodes[w], Unwrap(child_selection[w])) :
           IF r = "panic"
           THEN /\ pc' = [pc EXCEPT ![w] = "panicked"]
                /\ UNCHANGED <<result, draws>>
           ELSE /\ pc' = [pc EXCEPT ![w] = "backpropagate"]
                /\ result' = [result EXCEPT ![w] = Some(r)]
                /\ draws' = [draws EXCEPT ![w] = Append(@, r)]
    /\ UNCHANGED <<nodes, iterations, selection_idx, child_selection, ret,
                   bpCalls, executed>>
    /\ UNCHANGED <<configVars, timeUp, callerVars>>

\* tree.backpropagate(selection_idx, reward) on a terminal selection,
\* tree.backpropagate(child_selection, result) otherwise
\* starts from the child created last instead of the child drawn
BackpropagateTargetLast(w) ==
    IF IsSome(child_selection[w])
    THEN LET cs == nodes[w][Unwrap(selection_idx[w])].children IN cs[Len(cs)]
    ELSE Unwrap(selection_idx[w])

BackpropagateTarget(w) ==
    IF IsSome(child_selection[w]) THEN Unwrap(child_selection[w])
    ELSE Unwrap(selection_idx[w])

Backpropagate(w) ==
    /\ pc[w] = "backpropagate"
    /\ nodes' = [nodes EXCEPT
           ![w] = backpropagate(@, BackpropagateTarget(w), Unwrap(result[w]))]
    /\ bpCalls' = [bpCalls EXCEPT ![w] = @ + 1]
    /\ pc' = [pc EXCEPT ![w] = "end_condition"]
    /\ UNCHANGED <<iterations, selection_idx, child_selection, result, ret, executed,
                   draws>>
    /\ UNCHANGED <<configVars, timeUp, callerVars>>

\* if end_condition(nthreads, iterations) { break; } iterations += 1;
\* and, after the loop, the closure's return
EndCondition(w) ==
    /\ pc[w] = "end_condition"
    /\ executed' = [executed EXCEPT ![w] = @ + 1]
    /\ selection_idx' = [selection_idx EXCEPT ![w] = None]
    /\ child_selection' = [child_selection EXCEPT ![w] = None]
    /\ result' = [result EXCEPT ![w] = None]
    /\ IF end_condition(nthreads, iterations[w])
       THEN /\ pc' = [pc EXCEPT ![w] = "finished"]
            /\ ret' = [ret EXCEPT ![w] = Some(ThreadReturn(w))]
            /\ UNCHANGED iterations
       ELSE /\ pc' = [pc EXCEPT ![w] = "select"]
            /\ iterations' = [iterations EXCEPT ![w] = @ + 1]
            /\ UNCHANGED ret
    /\ UNCHANGED <<nodes, bpCalls, draws>>
    /\ UNCHANGED <<configVars, timeUp, callerVars>>

\* run_with_duration: the clock passes end_time
Tick ==
    /\ mode = "duration"
    /\ ~timeUp
    /\ timeUp' = TRUE
    /\ UNCHANGED <<configVars, workerVars, callerVars>>

\* JoinHandle::is_finished
ThreadIsFinished(w) == pc[w] \in {"finished", "panicked"}

\* ------------------------------------------------------------------ BestResultHandle::is_finished
\* !self.threads.iter().any(|thread| !thread.is_finished()): `any` reads the
\* threads in order, one read at a time, and stops at the first unfinished one.
IsFinishedCall ==
    /\ callerPc = "running"
    /\ IF nthreads = 0
       THEN /\ polled' = "true"
            /\ UNCHANGED <<callerPc, pollIdx>>
       ELSE /\ callerPc' = "polling"
            /\ pollIdx' = 1
            /\ UNCHANGED polled
    /\ UNCHANGED <<joinIdx, acc, best>>
    /\ UNCHANGED <<configVars, timeUp, workerVars>>

\* any(|thread| thread.is_finished()): true as soon as one thread is over
IsFinishedStepAny ==
    /\ callerPc = "polling"
    /\ IF ThreadIsFinished(pollIdx)
       THEN /\ polled' = "true"
            /\ callerPc' = "running"
            /\ pollIdx' = 0
       ELSE IF pollIdx = nthreads
       THEN /\ polled' = "false"
            /\ callerPc' = "running"
            /\ pollIdx' = 0
       ELSE /\ pollIdx' = pollIdx + 1
            /\ UNCHANGED <<polled, callerPc>>
    /\ UNCHANGED <<joinIdx, acc, best>>
    /\ UNCHANGED <<configVars, timeUp, workerVars>>

IsFinishedStep ==
    /\ callerPc = "polling"
    /\ IF ~ThreadIsFinished(pollIdx)
       THEN /\ polled' = "false"
            /\ callerPc' = "running"
            /\ pollIdx' = 0
       ELSE IF pollIdx = nthreads
       THEN /\ polled' = "true"
            /\ callerPc' = "running"
            /\ pollIdx' = 0
       ELSE /\ pollIdx' = pollIdx + 1
            /\ UNCHANGED <<polled, callerPc>>
    /\ UNCHANGED <<joinIdx, acc, best>>
    /\ UNCHANGED <<configVars, timeUp, workerVars>>

\* ------------------------------------------------------------------ BestResultHandle::join
\* zip stops at the shorter of the two vectors
ZipAdd(a, b) == [i \in 1..Min(Len(a), Len(b)) |-> a[i] + b[i]]

\* keeps the last thread's iteration count instead of the sum
ReduceLastIterations(accv, val) == <<val[1], ZipAdd(accv[2], val[2])>>

\* the closure given to reduce
Reduce(accv, val) == <<accv[1] + val[1], ZipAdd(accv[2], val[2])>>

\* Iterator::max_by_key over enumerate(): of several maximal keys the last
\* element is returned.  0-based index of the chosen element of v.
RECURSIVE MaxByKeyFrom(_, _, _)
MaxByKeyFrom(v, i, bestI) ==
    IF i > Len(v) THEN bestI - 1
    ELSE The({ MaxByKeyFrom(v, i + 1, b) :
               b \in {IF v[bestI] > v[i] THEN bestI ELSE i} })

\* the first of several maximal keys
max_by_key_first(v) ==
    (CHOOSE i \in 1..Len(v) :
        /\ \A j \in 1..Len(v) : v[j] <= v[i]
        /\ \A j \in 1..(i - 1) : v[j] < v[i]) - 1

\* counts the positions from 1, not from 0
max_by_key_one_based(v) == MaxByKeyFrom(v, 2, 1) + 1

max_by_key(v) == MaxByKeyFrom(v, 2, 1)

JoinCall ==
    /\ callerPc = "running"
    /\ callerPc' = "joining"
    /\ joinIdx' = 1
    /\ UNCHANGED <<pollIdx, polled, acc, best>>
    /\ UNCHANGED <<configVars, timeUp, workerVars>>

\* filter(|t| t.is_finished()): a thread still running is left out
JoinThreadSkipsRunning ==
    /\ callerPc = "joining"
    /\ joinIdx <= nthreads
    /\ IF ~ThreadIsFinished(joinIdx)
       THEN /\ joinIdx' = joinIdx + 1
            /\ UNCHANGED <<acc, callerPc>>
       ELSE IF IsSome(ret[joinIdx])
       THEN /\ acc' = IF IsSome(acc) THEN Some(<<Unwrap(acc)[1] + Unwrap(ret[joinIdx])[1],
                                                 ZipAdd(Unwrap(acc)[2], Unwrap(ret[joinIdx])[2])>>)
                      ELSE ret[joinIdx]
            /\ joinIdx' = joinIdx + 1
            /\ UNCHANGED callerPc
       ELSE /\ callerPc' = "panicked"
            /\ UNCHANGED <<acc, joinIdx>>
    /\ UNCHANGED <<pollIdx, polled, best>>
    /\ UNCHANGED <<configVars, timeUp, workerVars>>

\* filter_map(|t| t.join().ok()): a thread that panicked is left out
JoinThreadDropsPanicked ==
    /\ callerPc = "joining"
    /\ joinIdx <= nthreads
    /\ ThreadIsFinished(joinIdx)
    /\ acc' = IF ~IsSome(ret[joinIdx]) THEN acc
              ELSE IF IsSome(acc)
              THEN Some(<<Unwrap(acc)[1] + Unwrap(ret[joinIdx])[1],
                          ZipAdd(Unwrap(acc)[2], Unwrap(ret[joinIdx])[2])>>)
              ELSE ret[joinIdx]
    /\ joinIdx' = joinIdx + 1
    /\ UNCHANGED <<callerPc, pollIdx, polled, best>>
    /\ UNCHANGED <<configVars, timeUp, workerVars>>

\* .map(|t| t.join().unwrap()).reduce(..): one thread is joined at a time, in
\* order; JoinHandle::join blocks until the thread is over and is Err when it
\* panicked, which unwrap turns into a panic of the caller.
JoinThread ==
    /\ callerPc = "joining"
    /\ joinIdx <= nthreads
    /\ ThreadIsFinished(joinIdx)
    /\ IF IsSome(ret[joinIdx])
       THEN /\ acc' = IF IsSome(acc) THEN Some(Reduce(Unwrap(acc), Unwrap(ret[joinIdx])))
                      ELSE ret[joinIdx]
            /\ joinIdx' = joinIdx + 1
            /\ UNCHANGED callerPc
       ELSE /\ callerPc' = "panicked"
            /\ UNCHANGED <<acc, joinIdx>>
    /\ UNCHANGED <<pollIdx, polled, best>>
    /\ UNCHANGED <<configVars, timeUp, workerVars>>

\* reduce(..).unwrap(), max_by_key(..).unwrap(), initial_move_set[best_move_idx]
JoinReturn ==
    /\ callerPc = "joining"
    /\ joinIdx > nthreads
    /\ IF /\ IsSome(acc)
          /\ Unwrap(acc)[2] # <<>>
          /\ max_by_key(Unwrap(acc)[2]) < Len(initial_move_set)
       THEN /\ best' = Some([iterations |-> Unwrap(acc)[1],
                             best_move |-> initial_move_set[max_by_key(Unwrap(acc)[2]) + 1]])
            /\ callerPc' = "returned"
       ELSE /\ callerPc' = "panicked"
            /\ UNCHANGED best
    /\ UNCHANGED <<pollIdx, polled, joinIdx, acc>>
    /\ UNCHANGED <<configVars, timeUp, workerVars>>

\* ------------------------------------------------------------------ specification
\* the GameState implementations played: nim.rs, and one that has no move
\* from TARGET_NUMBER - 1
GameImpls == {{1, 2, 3}, {2, 3}}

\* run_with_end_condition, up to the return of the handle: the canonical move
\* set is captured and every thread holds a tree with the root alone.
Init ==
    /\ takes \in GameImpls
    /\ mode \in {"iterations", "duration"}
    /\ nthreads \in 0..MaxThreads
    /\ num_iterations \in 0..MaxWork
    /\ (mode = "duration" \/ nthreads = 0) => num_iterations = 0
    /\ (mode = "iterations" /\ nthreads > 0)
           => nthreads * (num_iterations \div nthreads + 1) <= MaxWork
    /\ timeUp = FALSE
    /\ \E current_num \in 0..TARGET_NUMBER :
           LET state == NimState(TRUE, current_num)
           IN  /\ initial_move_set = all_moves(state)
               /\ nodes = [w \in Workers |->
                              add_node_with_parent(TreeNew, NodeNew(state, None))]
    /\ pc = [w \in Workers |-> "select"]
    /\ iterations = [w \in Workers |-> 0]
    /\ selection_idx = [w \in Workers |-> None]
    /\ child_selection = [w \in Workers |-> None]
    /\ result = [w \in Workers |-> None]
    /\ ret = [w \in Workers |-> None]
    /\ bpCalls = [w \in Workers |-> 0]
    /\ executed = [w \in Workers |-> 0]
    /\ draws = [w \in Workers |-> <<>>]
    /\ callerPc = "running"
    /\ pollIdx = 0
    /\ polled = "none"
    /\ joinIdx = 0
    /\ acc = None
    /\ best = None

WorkerStep(w) ==
    \/ Select(w)
    \/ Expand(w)
    \/ Playout(w)
    \/ Backpropagate(w)
    \/ EndCondition(w)

SelectStep == \E w \in Workers : Select(w)
ExpandStep == \E w \in Workers : Expand(w)
PlayoutStep == \E w \in Workers : Playout(w)
BackpropagateStep == \E w \in Workers : Backpropagate(w)
EndConditionStep == \E w \in Workers : EndCondition(w)

Next ==
    \/ SelectStep
    \/ ExpandStep
    \/ PlayoutStep
    \/ BackpropagateStep
    \/ EndConditionStep
    \/ Tick
    \/ IsFinishedCall
    \/ IsFinishedStep
    \/ JoinCall
    \/ JoinThread
    \/ JoinReturn

Spec == Init /\ [][Next]_vars

\* A search started with run_with_iterations whose handle is joined.
\* Threads are scheduled by the operating system: a thread that can take a
\* step eventually takes it, and so does a caller blocked in join once the
\* thread it waits for is over.
FairInit == Init /\ mode = "iterations"

FairNext ==
    \/ SelectStep
    \/ ExpandStep
    \/ PlayoutStep
    \/ BackpropagateStep
    \/ EndConditionStep
    \/ JoinCall
    \/ JoinThread
    \/ JoinReturn

FairSpec ==
    /\ FairInit
    /\ [][FairNext]_vars
    /\ \A w \in 1..MaxThreads : WF_vars(w \in Workers /\ WorkerStep(w))
    /\ WF_vars(JoinThread)
    /\ WF_vars(JoinReturn)

\* ------------------------------------------------------------------ join on given reports
\* BestResultHandle::join as a function of what the threads return: every
\* thread is over, having panicked or returned some (iterations, votes) with
\* one vote per canonical move.
MaxReportIter == 1
MaxVote == 2

\* the reports of spec.md's aggregation example
ExampleReports == <<Some(<<10, <<3, 7>>>>), Some(<<10, <<8, 2>>>>)>>

ReportsOver(moves) ==
    {None} \cup
    {Some(<<it, votes>>) :
        it \in 0..MaxReportIter, votes \in [1..Len(moves) -> 1..MaxVote]}

JoinInit ==
    /\ takes = {1, 2, 3}
    /\ mode = "iterations"
    /\ num_iterations = 0
    /\ nthreads \in 0..MaxThreads
    /\ timeUp = FALSE
    /\ \E current_num \in 0..TARGET_NUMBER :
           LET state == NimState(TRUE, current_num)
           IN  /\ initial_move_set = all_moves(state)
               /\ nodes = [w \in Workers |->
                              add_node_with_parent(TreeNew, NodeNew(state, None))]
    /\ \/ ret \in [Workers -> ReportsOver(initial_move_set)]
       \/ /\ nthreads = 2
          /\ Len(initial_move_set) = 2
          /\ ret = ExampleReports
    /\ pc = [w \in Workers |-> IF IsSome(ret[w]) THEN "finished" ELSE "panicked"]
    /\ iterations = [w \in Workers |-> IF IsSome(ret[w]) THEN Unwrap(ret[w])[1] ELSE 0]
    /\ selection_idx = [w \in Workers |-> None]
    /\ child_selection = [w \in Workers |-> None]
    /\ result = [w \in Workers |-> None]
    /\ bpCalls = [w \in Workers |-> 0]
    /\ executed = [w \in Workers |-> 0]
    /\ draws = [w \in Workers |-> <<>>]
    /\ callerPc = "running"
    /\ pollIdx = 0
    /\ polled = "none"
    /\ joinIdx = 0
    /\ acc = None
    /\ best = None

JoinNext ==
    \/ JoinCall
    \/ JoinThread
    \/ JoinReturn

JoinSpec == JoinInit /\ [][JoinNext]_vars

\* ------------------------------------------------------------------ one search thread
\* The closure one thread runs, on its own: a worker's tree is read and
\* written by that worker alone, and with one thread the whole iteration
\* budget is spent on one tree.
TreeInit == Init /\ nthreads = 1

TreeNext ==
    \/ SelectStep
    \/ ExpandStep
    \/ PlayoutStep
    \/ BackpropagateStep
    \/ EndConditionStep
    \/ Tick

TreeSpec == TreeInit /\ [][TreeNext]_vars

\* ------------------------------------------------------------------ model soundness
\* Every comparison select makes is decided by the fixed-point scores as by
\* the f64 scores.
UctResolved ==
    \A w \in Workers : \A i \in DOMAIN nodes[w] : UctResolvedAt(nodes[w], i)

TypeOK ==
    /\ nthreads \in 0..MaxThreads
    /\ \A w \in Workers :
        /\ pc[w] \in {"select", "expand", "playout", "backpropagate",
                      "end_condition", "finished", "panicked"}
        /\ \A i \in DOMAIN nodes[w] : nodes[w][i].n \in Nat /\ nodes[w][i].w \in Nat
    /\ callerPc \in {"running", "polling", "joining", "returned", "panicked"}
    /\ polled \in {"none", "false", "true"}

\* ------------------------------------------------------------------ helpers of the claims
AllFinished == \A w \in Workers : pc[w] = "finished"
AllOver == \A w \in Workers : ThreadIsFinished(w)

\* sums over the threads 1..k of what they returned
RECURSIVE ReportedIterations(_)
ReportedIterations(k) ==
    IF k = 0 THEN 0 ELSE Unwrap(ret[k])[1] + ReportedIterations(k - 1)

RECURSIVE VoteTotalUpTo(_, _)
VoteTotalUpTo(i, k) ==
    IF k = 0 THEN 0 ELSE Unwrap(ret[k])[2][i] + VoteTotalUpTo(i, k - 1)

VoteTotal(i) == VoteTotalUpTo(i, nthreads)

RECURSIVE ExecutedUpTo(_)
ExecutedUpTo(k) == IF k = 0 THEN 0 ELSE executed[k] + ExecutedUpTo(k - 1)

MoveIndices == 1..Len(initial_move_set)
MaximalVote(i) == \A j \in MoveIndices : VoteTotal(j) <= VoteTotal(i)

RootOf(w) == nodes[w][0]
RootTerminal(w) == IsSome(is_terminal_state(RootOf(w).state))

\* a state that breaks the GameState contract: not terminal, no move
ContractViolation(state) ==
    ~IsSome(is_terminal_state(state)) /\ all_moves(state) = <<>>

RECURSIVE SumVisitsOver(_, _)
SumVisitsOver(ns, S) ==
    IF S = {} THEN 0
    ELSE LET i == CHOOSE x \in S : TRUE
         IN  (ns[i].n - 1) + SumVisitsOver(ns, S \ {i})

\* sum of visits - 1 over the root and every node expansions created
VisitIncrements(w) == SumVisitsOver(nodes[w], DOMAIN nodes[w])
CreatedVisitIncrements(w) == SumVisitsOver(nodes[w], DOMAIN nodes[w] \ {0})

\* ------------------------------------------------------------------ C1
\* C1: when join returns, iterations is the sum of the iteration counts the
\* threads returned and best_move is the canonical move at an index whose
\* summed vote is maximal.
C1_JoinAggregation ==
    callerPc = "returned" =>
        /\ nthreads >= 1
        /\ Unwrap(best).iterations = ReportedIterations(nthreads)
        /\ \E i \in MoveIndices :
               /\ Unwrap(best).best_move = initial_move_set[i]
               /\ MaximalVote(i)

\* the example of spec.md: (10,[3,7]) and (10,[8,2]) give 20 and index 0
C1_Witness ==
    /\ callerPc = "returned"
    /\ ret = ExampleReports
    /\ best = Some([iterations |-> 20, best_move |-> initial_move_set[1]])

\* ------------------------------------------------------------------ C2
\* C2 as claimed: of several indices with the maximal summed vote, join
\* returns the move at the first.
C2_FirstIndexWinsTies ==
    callerPc = "returned" =>
        \E i \in MoveIndices :
            /\ Unwrap(best).best_move = initial_move_set[i]
            /\ MaximalVote(i)
            /\ \A j \in 1..(i - 1) : ~MaximalVote(j)

\* C2 amended: of several indices with the maximal summed vote, join returns
\* the move at the last.
C2_LastIndexWinsTies ==
    callerPc = "returned" =>
        \E i \in MoveIndices :
            /\ Unwrap(best).best_move = initial_move_set[i]
            /\ MaximalVote(i)
            /\ \A j \in (i + 1)..Len(initial_move_set) : ~MaximalVote(j)

C2_Witness ==
    /\ callerPc = "returned"
    /\ \E i, j \in MoveIndices : i < j /\ MaximalVote(i) /\ MaximalVote(j)

\* ------------------------------------------------------------------ C3
\* C3 as claimed: under run_with_iterations a worker that has stopped has
\* executed exactly floor(total / N) iterations, each with one backpropagate.
C3_ExactBudget ==
    \A w \in Workers :
        (mode = "iterations" /\ pc[w] = "finished") =>
            /\ executed[w] = num_iterations \div nthreads
            /\ bpCalls[w] = num_iterations \div nthreads

\* ------------------------------------------------------------------ C4
\* C4 as claimed: the count a worker reports is the number of iterations it
\* executed, and join's iterations is the number executed by all workers.
C4_ReportedIsExecuted ==
    /\ \A w \in Workers :
           pc[w] = "finished" =>
               /\ Unwrap(ret[w])[1] = executed[w]
               /\ Unwrap(ret[w])[1] = bpCalls[w]
    /\ callerPc = "returned" => Unwrap(best).iterations = ExecutedUpTo(nthreads)

\* ------------------------------------------------------------------ C5
\* C5: a call of is_finished can always take its next step; when it returns,
\* it returns true exactly if every thread is over; and once it has returned
\* true it never returns false.
C5_IsFinished ==
    /\ [](callerPc = "polling" => ENABLED IsFinishedStep)
    /\ [][(callerPc = "polling" /\ callerPc' = "running")
              => (polled' = "true" <=> AllOver')]_vars
    /\ [][(callerPc = "running" /\ polled' # polled)
              => (polled' = "true" /\ AllOver')]_vars
    /\ [][polled = "true" => polled' = "true"]_vars

\* is_finished has read two threads and returned true
C5_Witness ==
    /\ nthreads >= 2
    /\ polled = "true"
    /\ callerPc = "running"
    /\ AllOver

\* ------------------------------------------------------------------ C6
\* run_with_iterations on nim.rs's game from a non-terminal root, N >= 1
C6_Premise ==
    /\ mode = "iterations"
    /\ takes = {1, 2, 3}
    /\ nthreads >= 1
    /\ initial_move_set # <<>>

\* C6: join returns only when every worker has finished; and, under the
\* premise and fair scheduling, every worker finishes for good and a join
\* that was called returns a result.
C6_JoinCompletion ==
    /\ [][callerPc' = "returned" => AllFinished']_vars
    /\ (C6_Premise => <>[]AllFinished)
    /\ ((C6_Premise /\ callerPc = "joining") ~> (callerPc = "returned" /\ IsSome(best)))

C6_Witness ==
    /\ C6_Premise
    /\ nthreads >= 2
    /\ callerPc = "returned"
    /\ IsSome(best)
    /\ AllFinished

\* ------------------------------------------------------------------ C7
\* C7: a worker that expands a leaf breaking the contract, or starts a
\* playout on one, panics and returns nothing; a panicked worker stays so;
\* join panics at a panicked worker and never returns a result while one
\* exists.
C7_ContractViolationFatal ==
    /\ [][\A w \in Workers :
              /\ (/\ pc[w] = "expand"
                  /\ ContractViolation(nodes[w][Unwrap(selection_idx[w])].state)
                  /\ pc'[w] # pc[w]) => (pc'[w] = "panicked" /\ ret'[w] = None)
              /\ (/\ pc[w] = "playout"
                  /\ ContractViolation(nodes[w][Unwrap(child_selection[w])].state)
                  /\ pc'[w] # pc[w]) => (pc'[w] = "panicked" /\ ret'[w] = None)
              /\ pc[w] = "panicked" => (pc'[w] = "panicked" /\ ret'[w] = None)]_vars
    /\ [][(/\ callerPc = "joining"
           /\ joinIdx <= nthreads
           /\ callerPc' # callerPc \/ joinIdx' # joinIdx)
              => (pc[joinIdx] = "panicked" <=> callerPc' = "panicked")]_vars
    /\ []((\E w \in Workers : pc[w] = "panicked")
              => (callerPc # "returned" /\ best = None))

\* one worker panicked in expand, one in a playout, and join panicked
C7_Witness ==
    /\ callerPc = "panicked"
    /\ joinIdx \in Workers
    /\ pc[joinIdx] = "panicked"
    /\ \E w1, w2 \in Workers :
           /\ pc[w1] = "panicked" /\ child_selection[w1] = None
           /\ pc[w2] = "panicked" /\ child_selection[w2] # None

\* ------------------------------------------------------------------ C8
\* C8: every node of every worker's tree has visits >= 1 and
\* 0 <= wins <= visits.
C8_WinBound ==
    \A w \in Workers : \A i \in DOMAIN nodes[w] :
        /\ nodes[w][i].n >= 1
        /\ 0 <= nodes[w][i].w
        /\ nodes[w][i].w <= nodes[w][i].n

\* a node below the root that was backpropagated through twice and won
C8_Witness ==
    \E w \in Workers : \E i \in DOMAIN nodes[w] :
        /\ i # 0
        /\ nodes[w][i].n >= 3
        /\ nodes[w][i].w >= 1
        /\ NodesLen(nodes[w]) > 4

\* ------------------------------------------------------------------ C9
\* C9: with a terminal root a worker never expands: its tree has the root
\* alone, without children, the root's visits are 1 + the backpropagate
\* calls made, and after k executed iterations they are 1 + k.
C9_TerminalRoot ==
    \A w \in Workers :
        RootTerminal(w) =>
            /\ NodesLen(nodes[w]) = 1
            /\ RootOf(w).children = <<>>
            /\ pc[w] \notin {"expand", "playout", "panicked"}
            /\ selection_idx[w] \in {None, Some(0)}
            /\ RootOf(w).n = 1 + bpCalls[w]
            /\ pc[w] \in {"select", "finished"} => RootOf(w).n = 1 + executed[w]

C9_Witness ==
    \E w \in Workers :
        /\ RootTerminal(w)
        /\ pc[w] = "finished"
        /\ executed[w] >= 2
        /\ RootOf(w).n = 1 + executed[w]

\* ------------------------------------------------------------------ C10
\* C10 as claimed: the sum of visits - 1 over the nodes expansions created,
\* plus the root's visits - 1, is the number of backpropagate calls, which is
\* the number k of iterations performed.
C10_VisitConservation ==
    \A w \in Workers :
        /\ VisitIncrements(w) = bpCalls[w]
        /\ pc[w] \in {"select", "finished"} => bpCalls[w] = executed[w]

\* C10 amended: the root's visits - 1 alone are the number of backpropagate
\* calls, which is the number k of iterations performed; the nodes
\* expansions created add nothing under a terminal root and at least k
\* under a non-terminal one.
C10_RootVisits ==
    \A w \in Workers :
        /\ RootOf(w).n - 1 = bpCalls[w]
        /\ pc[w] \in {"select", "finished"} => bpCalls[w] = executed[w]
        /\ RootTerminal(w) => CreatedVisitIncrements(w) = 0
        /\ ~RootTerminal(w) => CreatedVisitIncrements(w) >= bpCalls[w]

C10_Witness ==
    \E w \in Workers :
        /\ pc[w] = "finished"
        /\ executed[w] >= 2
        /\ ~RootTerminal(w)
        /\ CreatedVisitIncrements(w) > bpCalls[w]

\* ------------------------------------------------------------------ helpers of the tree claims
\* the nodes from idx up to the root, both included
RECURSIVE PathToRoot(_, _)
PathToRoot(ns, idx) ==
    IF ns[idx].parent = None THEN {idx}
    ELSE {idx} \cup PathToRoot(ns, Unwrap(ns[idx].parent))

ParentOf(ns, c) == Unwrap(ns[c].parent)

\* position of c in the children list of its parent
ChildPos(ns, c) ==
    CHOOSE i \in 1..Len(ns[ParentOf(ns, c)].children) :
        ns[ParentOf(ns, c)].children[i] = c

\* select has returned and the tree is still the one it walked
JustSelected(w) ==
    /\ pc[w] \in {"expand", "backpropagate"}
    /\ IsSome(selection_idx[w])
    /\ child_selection[w] = None

\* every descent of the walk that ended in sel took a child of maximal score
\* and, among the children tied with it, the one Before allows
DescentsPrefer(ns, sel, Before(_, _)) ==
    \A c \in PathToRoot(ns, sel) \ {0} :
        LET p == ParentOf(ns, c)
            cs == ns[p].children
        IN  \A i \in 1..Len(cs) :
                /\ total_cmp(ns, cs[i], c, p) # "Greater"
                /\ total_cmp(ns, cs[i], c, p) = "Equal" => Before(i, ChildPos(ns, c))

NotAfter(i, j) == i <= j
NotBefore(i, j) == i >= j

\* ------------------------------------------------------------------ C11
\* C11 as stated: whenever select has returned, every child the walk
\* descended into has the maximal UCT score among its siblings and is the
\* first of the siblings that share that score.
C11_FirstChildWinsTies ==
    \A w \in Workers :
        JustSelected(w) =>
            DescentsPrefer(nodes[w], Unwrap(selection_idx[w]), NotBefore)

\* C11 amended: whenever select has returned, every child the walk descended
\* into has the maximal UCT score among its siblings and is the last of the
\* siblings that share that score (Iterator::max_by keeps the last maximum).
C11_LastChildWinsTies ==
    \A w \in Workers :
        JustSelected(w) =>
            DescentsPrefer(nodes[w], Unwrap(selection_idx[w]), NotAfter)

\* select has descended into a child that shares the maximal score with
\* another child of the same node
C11_Witness ==
    \E w \in Workers :
        /\ JustSelected(w)
        /\ \E c \in PathToRoot(nodes[w], Unwrap(selection_idx[w])) \ {0} :
            \E s \in DOMAIN nodes[w] :
                /\ s # c
                /\ nodes[w][s].parent = nodes[w][c].parent
                /\ total_cmp(nodes[w], s, c, ParentOf(nodes[w], c)) = "Equal"

\* ------------------------------------------------------------------ C12
\* the children list of node i is the image of all_moves() on its state
ChildrenMatchMoves(ns, i) ==
    LET moves == all_moves(ns[i].state)
        cs == ns[i].children
    IN  /\ Len(cs) = Len(moves)
        /\ \A k \in 1..Len(cs) :
            /\ cs[k] \in DOMAIN ns
            /\ ns[cs[k]].state = apply_move(ns[i].state, moves[k])
        /\ \A j, k \in 1..Len(cs) : j # k => cs[j] # cs[k]

\* C12: in every reachable tree of a worker each node's children list is
\* empty or holds exactly one child per move of all_moves() on the node's
\* state, in that order, child k holding apply_move(all_moves()[k]) (so no
\* node was expanded twice), and a terminal node has no children.
C12_ChildrenInvariant ==
    \A w \in Workers : \A i \in DOMAIN nodes[w] :
        /\ nodes[w][i].children = <<>> \/ ChildrenMatchMoves(nodes[w], i)
        /\ IsSome(is_terminal_state(nodes[w][i].state)) => nodes[w][i].children = <<>>

\* a tree with an expanded node below the root, several children under it,
\* and a terminal node
C12_Witness ==
    \E w \in Workers : \E i, t \in DOMAIN nodes[w] :
        /\ i # 0
        /\ Len(nodes[w][i].children) >= 2
        /\ IsSome(is_terminal_state(nodes[w][t].state))

\* ------------------------------------------------------------------ C13
\* the places <<q, k>> where c is listed as a child
ListedAt(ns, c) ==
    {qk \in UNION {{<<q, k>> : k \in 1..Len(ns[q].children)} : q \in DOMAIN ns} :
        ns[qk[1]].children[qk[2]] = c}

TreeShaped(ns) ==
    /\ ns[0].parent = None
    /\ \A c \in DOMAIN ns \ {0} :
        /\ IsSome(ns[c].parent)
        /\ ParentOf(ns, c) \in DOMAIN ns
        /\ ParentOf(ns, c) < c
        /\ Cardinality(ListedAt(ns, c)) = 1
        /\ \A qk \in ListedAt(ns, c) : qk[1] = ParentOf(ns, c)

\* what a step keeps of the arena it found
ArenaKept(old, new) ==
    /\ DOMAIN old \subseteq DOMAIN new
    /\ \A i \in DOMAIN old :
        /\ new[i].state = old[i].state
        /\ new[i].parent = old[i].parent
        /\ old[i].children # <<>> => new[i].children = old[i].children

\* C13: in every reachable tree of a worker node 0 is the only node without
\* a parent, every other node c has a parent p < c and is listed exactly once
\* in p's children and in no other node's; and no step shrinks the arena or
\* changes an existing node's state, parent or non-empty children list.
C13_TreeStructure ==
    /\ [](\A w \in Workers : TreeShaped(nodes[w]))
    /\ [][\A w \in Workers : ArenaKept(nodes[w], nodes'[w])]_vars

\* a tree two expansions deep: a node whose parent is not the root
C13_Witness ==
    \E w \in Workers : \E c \in DOMAIN nodes[w] \ {0} :
        /\ ParentOf(nodes[w], c) # 0
        /\ nodes[w][0].n >= 4

\* ------------------------------------------------------------------ C14
\* The loop of select run for at most `fuel` descents: Some(index returned),
\* or None when the loop has not returned by then.
RECURSIVE SelectWithin(_, _, _)
SelectWithin(ns, nidx, fuel) ==
    IF IsSome(is_terminal_state(ns[nidx].state)) \/ ns[nidx].children = <<>>
    THEN Some(nidx)
    ELSE IF fuel = 0 THEN None
    ELSE The({ SelectWithin(ns, c, fuel - 1) : c \in {max_by_uct(ns, nidx)} })

TerminalOrChildless(ns, idx) ==
    IsSome(is_terminal_state(ns[idx].state)) \/ ns[idx].children = <<>>

\* C14: on every reachable tree the walk of select returns after at most as
\* many descents as the tree has nodes, and the node it returns is terminal
\* or has no children; what the worker's call of select returned is that
\* node, never a non-terminal node with children.
C14_SelectTerminates ==
    \A w \in Workers :
        LET r == SelectWithin(nodes[w], 0, NodesLen(nodes[w]))
        IN  /\ IsSome(r)
            /\ TerminalOrChildless(nodes[w], Unwrap(r))
            /\ JustSelected(w) =>
                /\ selection_idx[w] = r
                /\ TerminalOrChildless(nodes[w], Unwrap(selection_idx[w]))

\* select has returned a node two descents below the root
C14_Witness ==
    \E w \in Workers :
        /\ JustSelected(w)
        /\ Unwrap(selection_idx[w]) # 0
        /\ ParentOf(nodes[w], Unwrap(selection_idx[w])) # 0

\* ------------------------------------------------------------------ C15
\* new is old after one visit, and one win where the node's own state wins
\* `outcome`, on each node of `path`, and nothing else
BackpropagatedOn(old, new, path, outcome) ==
    /\ DOMAIN new = DOMAIN old
    /\ \A i \in DOMAIN old :
        /\ new[i].n = old[i].n + (IF i \in path THEN 1 ELSE 0)
        /\ new[i].w = old[i].w +
               (IF i \in path /\ terminal_is_win(old[i].state, outcome) THEN 1 ELSE 0)
        /\ new[i].state = old[i].state
        /\ new[i].parent = old[i].parent
        /\ new[i].children = old[i].children

\* C15: a call backpropagate(idx, outcome) adds exactly 1 to the visits of
\* idx and of each of its ancestors up to and including the root, adds
\* exactly 1 to the wins of those of them whose own state wins `outcome`,
\* and leaves the visits and wins of every other node and the state, parent
\* and children of every node as they were.
C15_BackpropagateFrame ==
    [][\A w \in Workers :
          pc[w] = "backpropagate" /\ pc'[w] # "backpropagate" =>
              BackpropagatedOn(nodes[w], nodes'[w],
                               PathToRoot(nodes[w], BackpropagateTarget(w)),
                               Unwrap(result[w]))]_vars

\* backpropagate has just walked a path of three nodes or more on which one
\* node won and another did not, in a tree with nodes off that path
C15_Witness ==
    \E w \in Workers :
        /\ pc[w] = "end_condition"
        /\ LET path == PathToRoot(nodes[w], BackpropagateTarget(w))
           IN  /\ Cardinality(path) >= 3
               /\ \E i, j \in path :
                   /\ terminal_is_win(nodes[w][i].state, Unwrap(result[w]))
                   /\ ~terminal_is_win(nodes[w][j].state, Unwrap(result[w]))
               /\ DOMAIN nodes[w] \ path # {}

\* ------------------------------------------------------------------ C16
\* node i is as Node::new made it
Fresh(ns, i) == ns[i].n = 1 /\ ns[i].w = 0

\* the worker is in an iteration that expanded its selection
InExpandingIteration(w) ==
    /\ pc[w] \in {"playout", "backpropagate", "end_condition"}
    /\ IsSome(child_selection[w])

\* all children of the selection exist and the sampled child is one of them
AllCreatedOneSampled(w) ==
    LET ns == nodes[w]
        sel == Unwrap(selection_idx[w])
        cs == ns[sel].children
    IN  /\ Len(cs) = Len(all_moves(ns[sel].state))
        /\ \E k \in 1..Len(cs) : cs[k] = Unwrap(child_selection[w])
        /\ pc[w] = "end_condition" =>
               \A k \in 1..Len(cs) :
                   IF cs[k] = Unwrap(child_selection[w])
                   THEN ns[cs[k]].n = 2
                   ELSE Fresh(ns, cs[k])

\* a node still as created, other than the child sampled in this iteration,
\* changes its visits or wins only in an iteration whose selection returned it
FreshUntilSelected(w) ==
    \A i \in DOMAIN nodes[w] :
        (/\ Fresh(nodes[w], i)
         /\ child_selection[w] # Some(i)
         /\ ~Fresh(nodes'[w], i)) => selection_idx[w] = Some(i)

\* C16: in an iteration whose selected node is not terminal all children of
\* that node are created and backpropagation starts from exactly one of
\* them; at the end of the iteration every other child created still has
\* visits 1 and wins 0, and it keeps them until an iteration whose selection
\* returns that child.
C16_ExpandAllRollOutOne ==
    /\ [](\A w \in Workers : InExpandingIteration(w) => AllCreatedOneSampled(w))
    /\ [][\A w \in Workers : FreshUntilSelected(w)]_vars

\* the end of a later iteration that created several children below the root,
\* with an unsampled child of an earlier expansion still as created
C16_Witness ==
    \E w \in Workers :
        /\ pc[w] = "end_condition"
        /\ IsSome(child_selection[w])
        /\ Unwrap(selection_idx[w]) # 0
        /\ Len(nodes[w][Unwrap(selection_idx[w])].children) >= 2
        /\ \E i \in DOMAIN nodes[w] \ {0} :
            /\ ParentOf(nodes[w], i) = 0
            /\ Fresh(nodes[w], i)

\* ------------------------------------------------------------------ C17
\* the worker is between the start of an iteration and its backpropagate
MidIteration(w) == pc[w] \in {"select", "expand", "playout", "backpropagate"}

\* what a step of worker w may do with the termination predicate
CooperativeStep(w) ==
    /\ MidIteration(w) =>
        /\ pc'[w] # "finished"
        /\ executed'[w] = executed[w]
        /\ iterations'[w] = iterations[w]
        /\ ret'[w] = ret[w]
    /\ pc[w] = "end_condition" /\ pc'[w] # pc[w] =>
        /\ executed'[w] = executed[w] + 1
        /\ bpCalls'[w] = bpCalls[w]
        /\ IF end_condition(nthreads, iterations[w])
           THEN pc'[w] = "finished"
           ELSE pc'[w] = "select"
    /\ pc[w] = "finished" =>
        /\ pc'[w] = "finished"
        /\ nodes'[w] = nodes[w]
        /\ bpCalls'[w] = bpCalls[w]
        /\ executed'[w] = executed[w]

\* evaluations of the predicate against iterations completed
OncePerIteration(w) ==
    /\ pc[w] = "end_condition" => executed[w] + 1 = bpCalls[w]
    /\ pc[w] \in {"select", "expand", "playout", "backpropagate", "finished"} =>
           executed[w] = bpCalls[w]
    /\ pc[w] = "finished" => bpCalls[w] >= 1

\* C17: a worker evaluates the termination predicate exactly once after
\* each completed iteration and never between the select, expand, simulate
\* and backpropagate steps; it completes at least one iteration even when
\* the predicate is true from the start, stops at the first evaluation that
\* returns true and runs nothing after it.
C17_CooperativeTermination ==
    /\ [](\A w \in Workers : OncePerIteration(w))
    /\ [][\A w \in Workers : CooperativeStep(w)]_vars

\* the predicate is already true and the worker is inside its first
\* iteration
C17_Witness ==
    \E w \in Workers :
        /\ pc[w] = "backpropagate"
        /\ bpCalls[w] = 0
        /\ end_condition(nthreads, iterations[w])

\* ------------------------------------------------------------------ C18
\* One pass of the loop body on the arena ns run by itself, the rng deciding
\* as ds says: the arena after it and the decisions not yet used.
Iteration(ns, ds) ==
    LET sel == select(ns)
        terminal == selection_terminal(ns, sel)
    IN  IF IsSome(terminal)
        THEN [nodes |-> backpropagate(ns, sel, Unwrap(terminal)), draws |-> ds]
        ELSE [nodes |-> backpropagate(expand(ns, sel),
                                      expand_returns(ns, sel)[ds[1] + 1], ds[2]),
              draws |-> Tail(Tail(ds))]

\* the arena after k passes
RECURSIVE Replay(_, _, _)
Replay(ns, ds, k) ==
    IF k = 0 THEN ns
    ELSE The({ Replay(it.nodes, it.draws, k - 1) : it \in {Iteration(ns, ds)} })

\* the arena worker w started with
StartArena(w) ==
    add_node_with_parent(TreeNew, NodeNew(RootOf(w).state, None))

VotesOf(ns) == [i \in 1..Len(ns[0].children) |-> ns[ns[0].children[i]].n]

\* what worker w reports under an iteration budget, from its own draws alone
SoloReport(w) ==
    LET q == num_iterations \div nthreads
    IN  <<q, VotesOf(Replay(StartArena(w), draws[w], q + 1))>>

RECURSIVE SoloVotesUpTo(_, _)
SoloVotesUpTo(i, k) ==
    IF k = 0 THEN 0 ELSE SoloReport(k)[2][i] + SoloVotesUpTo(i, k - 1)

\* what join returns for those reports
SoloBest ==
    LET total == [i \in MoveIndices |-> SoloVotesUpTo(i, nthreads)]
        last == CHOOSE i \in MoveIndices :
                    /\ \A j \in MoveIndices : total[j] <= total[i]
                    /\ \A j \in MoveIndices : j > i => total[j] < total[i]
    IN  [iterations |-> nthreads * (num_iterations \div nthreads),
         best_move |-> initial_move_set[last]]

\* what belongs to worker w alone
Local(w) ==
    <<nodes[w], pc[w], iterations[w], selection_idx[w], child_selection[w],
      result[w], ret[w], draws[w]>>

DeterminedByOwnDraws ==
    /\ \A w \in Workers :
        /\ pc[w] \in {"select", "end_condition", "finished"} =>
               nodes[w] = Replay(StartArena(w), draws[w], bpCalls[w])
        /\ mode = "iterations" /\ pc[w] = "finished" => ret[w] = Some(SoloReport(w))
    /\ mode = "iterations" /\ callerPc = "returned" => best = Some(SoloBest)

\* C18: no step changes what belongs to two workers; under an iteration
\* budget the (iteration count, vote vector) a worker reports is what that
\* worker computes from its own random draws when run by itself, and the
\* BestResult join returns is the one computed from those reports, whatever
\* the interleaving of the workers' steps and the order they finish in.
C18_InterleavingIndependence ==
    /\ []DeterminedByOwnDraws
    /\ [][\A v, w \in Workers :
              v # w /\ Local(v)' # Local(v) => Local(w)' = Local(w)]_vars

\* join has returned for two workers that drew differently and built
\* different trees
C18_Witness ==
    /\ mode = "iterations"
    /\ nthreads = 2
    /\ callerPc = "returned"
    /\ draws[1] # <<>>
    /\ draws[1] # draws[2]
    /\ nodes[1] # nodes[2]

\* ------------------------------------------------------------------ C19
\* the tree is as an iteration left it (or as the closure created it)
BetweenIterations(w) == pc[w] \in {"select", "end_condition", "finished"}

ChildSet(ns, i) == {ns[i].children[k] : k \in 1..Len(ns[i].children)}

\* visits of node i beyond the 1 of Node::new that its children do not account for
VisitsOwn(ns, i) == (ns[i].n - 1) - SumVisitsOver(ns, ChildSet(ns, i))

RECURSIVE SumSeq(_, _)
SumSeq(sq, k) == IF k = 0 THEN 0 ELSE sq[k] + SumSeq(sq, k - 1)

\* root visits and the vote vector against the iterations executed
RootFlow(w) ==
    /\ RootOf(w).n = 1 + bpCalls[w]
    /\ pc[w] = "finished" /\ ~RootTerminal(w) =>
           SumSeq(Unwrap(ret[w])[2], Len(Unwrap(ret[w])[2]))
               = bpCalls[w] + Len(all_moves(RootOf(w).state))

JoinPicks == callerPc = "joining" /\ joinIdx > nthreads

\* the search has nothing to vote on: no worker, or a terminal initial state
EmptyVote == nthreads = 0 \/ \E w \in Workers : RootTerminal(w)

\* C20: when every thread has been joined, join panics if the search ran
\* with zero workers or on a terminal initial state (empty vote vectors),
\* and otherwise returns; a BestResult is never returned for an empty vote,
\* and the move returned is at an index within the canonical move set.
C20_NoResultForEmptyVote ==
    /\ [][JoinPicks /\ callerPc' # callerPc =>
              IF EmptyVote THEN callerPc' = "panicked" /\ best' = None
              ELSE callerPc' = "returned"]_vars
    /\ [](callerPc = "returned" =>
              /\ ~EmptyVote
              /\ \E i \in MoveIndices : Unwrap(best).best_move = initial_move_set[i])

\* join has panicked after joining two workers that ran on a terminal
\* initial state and reported empty vote vectors
C20_Witness ==
    /\ callerPc = "panicked"
    /\ nthreads = 2
    /\ joinIdx > nthreads
    /\ \A w \in Workers : RootTerminal(w) /\ ret[w] = Some(<<iterations[w], <<>> >>)

====
